---- MODULE Spec2Model ----
(***************************************************************************)
(* A model of relx: the osc provider and its data sourcer facade           *)
(* (src/src/relx/providers.py), the group/user lookups of                  *)
(* src/src/relx/users.py and the package/artifact enumeration of           *)
(* src/src/relx/artifacts.py.                                              *)
(*                                                                         *)
(* A Python str is a sequence of one-character strings.  An operation of   *)
(* the provider is an operator that yields [out, cmds]: its outcome (a     *)
(* returned value or a raised exception) and the commands it handed to     *)
(* run_command, in order.                                                  *)
(*                                                                         *)
(* Spec      one call of one of the four data sourcer operations, on       *)
(*           inputs and an external command outcome drawn from bounded     *)
(*           sets (the group and user lookups through users.py).           *)
(* SpecEnum  artifacts.main: the package listing followed by the nested    *)
(*           enumeration over repository descriptors and packages.         *)
(***************************************************************************)
EXTENDS Integers, Sequences, FiniteSets, TLC

VARIABLES
    op,                 \* Spec: the operation called
    opc,                \* Spec: "call" before the operation, "done" after
    proc,               \* Spec: what the external command will do
    repo_name,          \* Spec: list_artifacts' repo_name
    invalid_start,      \* Spec: list_artifacts' invalid_start
    invalid_extensions, \* Spec: list_artifacts' invalid_extensions
    flags,              \* Spec: <<is_login, is_email, is_realname>> / is_fulllist
    pret,               \* Spec: the outcome of the provider (through DataSourcer)
    ret,                \* Spec: the outcome the caller of the operation sees
    spawned,            \* Spec: the commands handed to run_command
    pc,                 \* SpecEnum: position in artifacts.main
    repo_infos,         \* SpecEnum: config["artifacts"]["repo_info"]
    packages,           \* SpecEnum: the package list of main
    total_steps,        \* SpecEnum: the total given to progress.add_task
    advanced,           \* SpecEnum: the sum of progress.update(advance=1)
    di,                 \* SpecEnum: index of the descriptor in main's loop
    pi,                 \* SpecEnum: index of the package in list_artifacs' loop
    pending,            \* SpecEnum: lines of the current query not yet printed
    printed,            \* SpecEnum: the lines printed so far (standard output)
    queries,            \* SpecEnum: the <<descriptor index, package index>> queried
    results,            \* SpecEnum: the list each successful query returned
    failure             \* SpecEnum: the exception that left main, if any

opVars == <<op, opc, proc, repo_name, invalid_start, invalid_extensions, flags,
            pret, ret, spawned>>
enumVars == <<pc, repo_infos, packages, total_steps, advanced, di, pi, pending,
              printed, queries, results, failure>>
vars == <<opVars, enumVars>>

(***************************************************************************)
(* Bounds of the model.                                                    *)
(***************************************************************************)
MaxLen == 5       \* longest stdout text of a listing command, in characters
MaxKids == 2      \* most children of the root element of an XML document
MaxPkgs == 2      \* most lines of the package listing in SpecEnum

SP == " "
NL == "\n"
Whitespace == {SP, NL}
Alphabet == {"r", "/", "a", SP, NL}

RECURSIVE StringsUpTo(_)
StringsUpTo(n) ==
    IF n = 0 THEN {<<>>}
    ELSE LET shorter == StringsUpTo(n - 1)
         IN  shorter \cup {Append(s, c) : s \in shorter, c \in Alphabet}

(***************************************************************************)
(* Python str methods, as CPython computes them on this alphabet.          *)
(***************************************************************************)
RECURSIVE lstrip(_)
lstrip(s) ==
    IF s # <<>> /\ Head(s) \in Whitespace THEN lstrip(Tail(s)) ELSE s

RECURSIVE rstrip(_)
rstrip(s) ==
    IF s # <<>> /\ s[Len(s)] \in Whitespace
    THEN rstrip(SubSeq(s, 1, Len(s) - 1))
    ELSE s

strip(s) == rstrip(lstrip(s))

\* str.splitlines(): a line ends at a line break or at the end of the text; a
\* text that ends with a line break has no empty last line.
RECURSIVE SplitFrom(_, _, _)
SplitFrom(s, cur, acc) ==
    IF s = <<>> THEN (IF cur = <<>> THEN acc ELSE Append(acc, cur))
    ELSE IF Head(s) = NL THEN SplitFrom(Tail(s), <<>>, Append(acc, cur))
    ELSE SplitFrom(Tail(s), Append(cur, Head(s)), acc)

splitlines(s) == SplitFrom(s, <<>>, <<>>)

startswith(s, p) == Len(p) <= Len(s) /\ SubSeq(s, 1, Len(p)) = p

endswith(s, x) == Len(x) <= Len(s) /\ SubSeq(s, Len(s) - Len(x) + 1, Len(s)) = x

\* str.startswith / str.endswith with a tuple: any of its members
startswith_any(s, ps) == \E i \in DOMAIN ps : startswith(s, ps[i])

endswith_any(s, xs) == \E i \in DOMAIN xs : endswith(s, xs[i])

\* [line.strip() for line in stdout.strip().splitlines()]
RECURSIVE StripEach(_)
StripEach(lines) ==
    IF lines = <<>> THEN <<>>
    ELSE <<strip(Head(lines))>> \o StripEach(Tail(lines))

(***************************************************************************)
(* Outcomes of a call.                                                     *)
(***************************************************************************)
NoText == <<>>

Return(v) == [kind |-> "return", value |-> v, exc |-> "", msg |-> "",
              subject |-> NoText, stderr |-> NoText, cause |-> ""]

\* exc: the exception type; msg, subject: the message's fixed text and the name
\* it quotes; stderr: the stderr text the exception carries (as its attribute
\* or in its message); cause: the type of __cause__
Raise(e, m, subj, err, c) ==
    [kind |-> "raise", value |-> <<>>, exc |-> e, msg |-> m, subject |-> subj,
     stderr |-> err, cause |-> c]

Done(o, c) == [out |-> o, cmds |-> c]

(***************************************************************************)
(* The external command.  A command line is recorded by its parts: the     *)
(* f-string's fixed text decides verb, path and match, its interpolated    *)
(* values are text, package and repo (api_url and project are fixed).      *)
(***************************************************************************)
Command(verb, path, match, text, package, repo) ==
    [verb |-> verb, path |-> path, match |-> match, text |-> text,
     package |-> package, repo |-> repo]

\* relx.utils.tools.run_command: one synchronous spawn; a non-zero exit raises
\* CalledProcessError with the captured stderr, otherwise the captured output
\* is returned
run_command(command, p) ==
    IF p.returncode # 0
    THEN Raise("CalledProcessError", "", NoText, p.stderr, "")
    ELSE Return([stdout |-> p.stdout, stderr |-> p.stderr])

(***************************************************************************)
(* OscProvider.list_packages                                               *)
(***************************************************************************)
list_packages(p) ==
    LET command == Command("ls", "", "", NoText, NoText, NoText)
        result == run_command(command, p)
    IN  IF result.kind = "raise" THEN Done(result, <<command>>)
        ELSE IF result.value.stdout # <<>>
        THEN Done(Return(StripEach(splitlines(strip(result.value.stdout)))),
                  <<command>>)
        ELSE Done(Return(<<>>), <<command>>)

(***************************************************************************)
(* OscProvider.list_artifacts                                              *)
(***************************************************************************)
\* a faulty variant of KeepLine that leaves out the extension test
KeepLine_NoExtensionTest(line, rname, istart, iext) ==
    /\ ~ startswith_any(line, istart)
    /\ ~ startswith(line, rname \o <<"/">>)

\* a faulty variant of KeepLine that tests the repository name without its slash
KeepLine_BareRepoName(line, rname, istart, iext) ==
    /\ ~ startswith_any(line, istart)
    /\ ~ startswith(line, rname)
    /\ ~ endswith_any(line, iext)

\* the two nested conditions that guard filtered_artifacts.append(line)
KeepLine(line, rname, istart, iext) ==
    /\ ~ startswith_any(line, istart)
    /\ ~ startswith(line, rname \o <<"/">>)
    /\ ~ endswith_any(line, iext)

\* a faulty variant of AppendArtifact that inserts at the front
AppendArtifact_AtFront(filtered_artifacts, line) == <<line>> \o filtered_artifacts

\* filtered_artifacts.append(line)
AppendArtifact(filtered_artifacts, line) == Append(filtered_artifacts, line)

\* the for loop over result.stdout.strip().splitlines()
RECURSIVE FilterLoop(_, _, _, _, _)
FilterLoop(lines, filtered_artifacts, rname, istart, iext) ==
    IF lines = <<>> THEN filtered_artifacts
    ELSE LET line == strip(Head(lines))
         IN  FilterLoop(Tail(lines),
                        IF KeepLine(line, rname, istart, iext)
                        THEN AppendArtifact(filtered_artifacts, line)
                        ELSE filtered_artifacts,
                        rname, istart, iext)

list_artifacts(p, package, rname, istart, iext) ==
    LET command == Command("ls", "", "", NoText, package, rname)
        result == run_command(command, p)
    IN  IF result.kind = "raise" THEN Done(result, <<command>>)
        ELSE IF result.value.stdout = <<>> THEN Done(Return(<<>>), <<command>>)
        ELSE Done(Return(FilterLoop(splitlines(strip(result.value.stdout)),
                                    <<>>, rname, istart, iext)),
                  <<command>>)

(***************************************************************************)
(* XML, as lxml's etree presents it.  The output of an api command is a    *)
(* document: not well-formed (the empty output included), or a root        *)
(* element.  An element has a tag, an optional text, an optional userid    *)
(* attribute and its children in document order.                           *)
(***************************************************************************)
None == [some |-> FALSE, text |-> NoText]
Some(t) == [some |-> TRUE, text |-> t]

Element(tag, text, userid, kids) ==
    [tag |-> tag, text |-> text, userid |-> userid, kids |-> kids]

Leaf(tag, text) == Element(tag, text, None, <<>>)

EmptyOutput == [wellformed |-> FALSE, empty |-> TRUE, root |-> Leaf("", None)]
Garbage == [wellformed |-> FALSE, empty |-> FALSE, root |-> Leaf("", None)]
Document(root) == [wellformed |-> TRUE, empty |-> FALSE, root |-> root]

\* Element.findall(tag): the direct children with that tag, in document order
RECURSIVE findall(_, _)
findall(kids, tag) ==
    IF kids = <<>> THEN <<>>
    ELSE (IF Head(kids).tag = tag THEN <<Head(kids)>> ELSE <<>>)
         \o findall(Tail(kids), tag)

\* Element.find(tag) is the first of them, or None
found(kids, tag) == findall(kids, tag) # <<>>
find(kids, tag) == Head(findall(kids, tag))

\* title.text if title is not None else None
TextOrNone(kids, tag) == IF found(kids, tag) THEN find(kids, tag).text ELSE None

RECURSIVE UserIds(_)
UserIds(elems) ==
    IF elems = <<>> THEN <<>>
    ELSE <<Head(elems).userid>> \o UserIds(Tail(elems))

\* for person in people: for user in person.findall("person"): users.append(...)
RECURSIVE NestedUserIds(_)
NestedUserIds(people) ==
    IF people = <<>> THEN <<>>
    ELSE UserIds(findall(Head(people).kids, "person"))
         \o NestedUserIds(Tail(people))

(***************************************************************************)
(* OscProvider.get_groups                                                  *)
(***************************************************************************)
GroupInfo(kids, is_fulllist) ==
    LET base == [Group |-> TextOrNone(kids, "title"),
                 Email |-> TextOrNone(kids, "email"),
                 Maintainers |-> UserIds(findall(kids, "maintainer"))]
    IN  IF is_fulllist
        THEN [Group |-> base.Group, Email |-> base.Email,
              Maintainers |-> base.Maintainers,
              Users |-> NestedUserIds(findall(kids, "person"))]
        ELSE base

\* a faulty variant of get_groups that answers a failed command with an empty record
get_groups_SwallowFailure(p, group, is_fulllist) ==
    LET command == Command("api", "/group/", "", group, NoText, NoText)
        output == run_command(command, p)
    IN  IF output.kind = "raise" THEN Done(Return(<<>>), <<command>>)
        ELSE IF ~ output.value.stdout.wellformed
        THEN Done(Raise("XMLSyntaxError", "", NoText, NoText, ""), <<command>>)
        ELSE Done(Return(GroupInfo(output.value.stdout.root.kids, is_fulllist)),
                  <<command>>)

get_groups(p, group, is_fulllist) ==
    LET command == Command("api", "/group/", "", group, NoText, NoText)
        output == run_command(command, p)
    IN  IF output.kind = "raise"
        THEN Done(Raise("RuntimeError", "Failed to get group", group,
                        strip(output.stderr), "CalledProcessError"),
                  <<command>>)
        ELSE IF ~ output.value.stdout.wellformed
        THEN Done(Raise("XMLSyntaxError", "", NoText, NoText, ""), <<command>>)
        ELSE Done(Return(GroupInfo(output.value.stdout.root.kids, is_fulllist)),
                  <<command>>)

(***************************************************************************)
(* OscProvider.get_users                                                   *)
(***************************************************************************)
UserFields == <<"login", "email", "realname", "state">>

\* person.find(f).text fails on None when a child is absent
CompletePerson(person) ==
    \A i \in DOMAIN UserFields : found(person.kids, UserFields[i])

UserInfo(person) ==
    [User |-> find(person.kids, "login").text,
     Email |-> find(person.kids, "email").text,
     Name |-> find(person.kids, "realname").text,
     State |-> find(person.kids, "state").text]

RECURSIVE UserInfos(_)
UserInfos(people) ==
    IF people = <<>> THEN <<>>
    ELSE <<UserInfo(Head(people))>> \o UserInfos(Tail(people))

\* the if / elif / elif / else chain that builds the command: "" is the else
MatchExpression(is_login, is_email, is_realname) ==
    IF is_login THEN "@login="
    ELSE IF is_email THEN "@email="
    ELSE IF is_realname THEN "contains(@realname,"
    ELSE ""

get_users(p, search_text, is_login, is_email, is_realname) ==
    LET match == MatchExpression(is_login, is_email, is_realname)
        command == Command("api", "/search/person", match, search_text,
                           NoText, NoText)
        output == run_command(command, p)
        people == findall(output.value.stdout.root.kids, "person")
    IN  IF match = ""
        THEN Done(Raise("RuntimeError", "Invalid user search.", NoText, NoText, ""),
                  <<>>)
        ELSE IF output.kind = "raise"
        THEN Done(Raise("RuntimeError", "Failed to get user", search_text,
                        strip(output.stderr), "CalledProcessError"),
                  <<command>>)
        ELSE IF ~ output.value.stdout.wellformed
        THEN Done(Raise("XMLSyntaxError", "", NoText, NoText, ""), <<command>>)
        ELSE IF people = <<>> THEN Done(Return(<<>>), <<command>>)
        ELSE IF \E i \in DOMAIN people : ~ CompletePerson(people[i])
        THEN Done(Raise("AttributeError", "", NoText, NoText, ""), <<command>>)
        ELSE Done(Return(UserInfos(people)), <<command>>)

(***************************************************************************)
(* DataSourcer: each operation delegates to the provider.                  *)
(***************************************************************************)
DataSourcer_list_packages(p) == list_packages(p)

DataSourcer_list_artifacts(p, package, rname, istart, iext) ==
    list_artifacts(p, package, rname, istart, iext)

DataSourcer_get_groups(p, group, is_fulllist) == get_groups(p, group, is_fulllist)

DataSourcer_get_users(p, search_text, is_login, is_email, is_realname) ==
    get_users(p, search_text, is_login, is_email, is_realname)

(***************************************************************************)
(* users.get_groups and users.get_users, the callers of the lookups.       *)
(***************************************************************************)
\* "if not x": an empty dict or list is false
Falsy(x) == DOMAIN x = {}

users_get_groups(info, group) ==
    IF info.kind = "raise" THEN info
    ELSE IF Falsy(info.value)
    THEN Raise("RuntimeError", "not found.", group, NoText, "")
    ELSE info

\* a generator: value is what it yields before it ends (returns or raises)
users_get_users(users_info, search_text) ==
    IF users_info.kind = "raise" THEN users_info
    ELSE IF Falsy(users_info.value)
    THEN Raise("RuntimeError", "not found.", search_text, NoText, "")
    ELSE users_info

(***************************************************************************)
(* Spec: one call of one operation.                                        *)
(***************************************************************************)
NotYet == [kind |-> "none", value |-> <<>>, exc |-> "", msg |-> "",
           subject |-> NoText, stderr |-> NoText, cause |-> ""]

NoFlags == [is_login |-> FALSE, is_email |-> FALSE, is_realname |-> FALSE,
            is_fulllist |-> FALSE]

Stderrs == {<<>>, <<"a">>, <<SP, "a", NL>>}

\* what a listing command can do: exit 0 with any text of the alphabet, or
\* exit non-zero, with or without partial output
ListingProcs ==
    {[returncode |-> 0, stdout |-> s, stderr |-> <<>>] : s \in StringsUpTo(MaxLen)}
    \cup {[returncode |-> 1, stdout |-> s, stderr |-> e] :
              s \in {<<>>, <<"a">>}, e \in Stderrs}

RepoNames == {<<"r">>, <<"a">>}
PrefixLists == {<<>>, << <<"a">> >>, << <<"/">>, <<"a", "r">> >>}
ExtensionLists == {<<>>, << <<"a">> >>, << <<"/">>, <<"r", "a">> >>}

SeqsUpTo(S, n) == UNION {[1..k -> S] : k \in 0..n}

GroupKids ==
    {Leaf("title", Some(<<"g">>)), Leaf("title", None), Leaf("email", Some(<<"e">>)),
     Element("maintainer", None, Some(<<"a">>), <<>>),
     Element("maintainer", None, None, <<>>),
     Element("person", None, None,
             <<Element("person", None, Some(<<"r">>), <<>>)>>)}

FullPerson ==
    Element("person", None, None,
            <<Leaf("login", Some(<<"a">>)), Leaf("email", Some(<<"e">>)),
              Leaf("realname", None), Leaf("state", Some(<<"r">>))>>)

PartialPerson ==
    Element("person", None, None,
            <<Leaf("login", Some(<<"r">>)), Leaf("email", Some(<<"e">>)),
              Leaf("realname", Some(<<"a">>))>>)

UserKids == {FullPerson, PartialPerson, Leaf("other", None)}

\* what an api command can do: exit 0 with a document, or exit non-zero
ApiProcs(kids, rootTag) ==
    {[returncode |-> 0, stdout |-> d, stderr |-> <<>>] :
        d \in {EmptyOutput, Garbage}
              \cup {Document(Element(rootTag, None, None, k)) :
                       k \in SeqsUpTo(kids, MaxKids)}}
    \cup {[returncode |-> 1, stdout |-> EmptyOutput, stderr |-> e] : e \in Stderrs}

SearchText == <<"a">>

EnumIdle ==
    /\ pc = "idle"
    /\ repo_infos = <<>>
    /\ packages = <<>>
    /\ total_steps = 0
    /\ advanced = 0
    /\ di = 1
    /\ pi = 1
    /\ pending = <<>>
    /\ printed = <<>>
    /\ queries = <<>>
    /\ results = <<>>
    /\ failure = NotYet

Init ==
    /\ opc = "call"
    /\ pret = NotYet
    /\ ret = NotYet
    /\ spawned = <<>>
    /\ EnumIdle
    /\ \/ /\ op = "list_packages"
          /\ proc \in ListingProcs
          /\ repo_name = NoText
          /\ invalid_start = <<>>
          /\ invalid_extensions = <<>>
          /\ flags = NoFlags
       \/ /\ op = "list_artifacts"
          /\ proc \in ListingProcs
          /\ repo_name \in RepoNames
          /\ invalid_start \in PrefixLists
          /\ invalid_extensions \in ExtensionLists
          /\ flags = NoFlags
       \/ /\ op = "get_groups"
          /\ proc \in ApiProcs(GroupKids, "group")
          /\ repo_name = NoText
          /\ invalid_start = <<>>
          /\ invalid_extensions = <<>>
          /\ flags \in {[NoFlags EXCEPT !.is_fulllist = b] : b \in BOOLEAN}
       \/ /\ op = "get_users"
          /\ proc \in ApiProcs(UserKids, "collection")
          /\ repo_name = NoText
          /\ invalid_start = <<>>
          /\ invalid_extensions = <<>>
          /\ flags \in [is_login : BOOLEAN, is_email : BOOLEAN,
                        is_realname : BOOLEAN, is_fulllist : {FALSE}]

Finish(provider, caller) ==
    /\ pret' = provider.out
    /\ ret' = caller
    /\ spawned' = provider.cmds
    /\ opc' = "done"
    /\ UNCHANGED <<op, proc, repo_name, invalid_start, invalid_extensions, flags>>
    /\ UNCHANGED enumVars

ListPackages ==
    /\ op = "list_packages" /\ opc = "call"
    /\ LET r == DataSourcer_list_packages(proc)
       IN  Finish(r, r.out)

ListArtifacts ==
    /\ op = "list_artifacts" /\ opc = "call"
    /\ LET r == DataSourcer_list_artifacts(proc, SearchText, repo_name,
                                           invalid_start, invalid_extensions)
       IN  Finish(r, r.out)

GetGroups ==
    /\ op = "get_groups" /\ opc = "call"
    /\ LET r == DataSourcer_get_groups(proc, SearchText, flags.is_fulllist)
       IN  Finish(r, users_get_groups(r.out, SearchText))

GetUsers ==
    /\ op = "get_users" /\ opc = "call"
    /\ LET r == DataSourcer_get_users(proc, SearchText, flags.is_login,
                                      flags.is_email, flags.is_realname)
       IN  Finish(r, users_get_users(r.out, SearchText))

Next == ListPackages \/ ListArtifacts \/ GetGroups \/ GetUsers

Spec == Init /\ [][Next]_vars

(***************************************************************************)
(* Properties of one call (checked under Spec).                            *)
(***************************************************************************)
\* the trimmed input lines of a listing
TrimmedLines(stdout) == StripEach(splitlines(strip(stdout)))

HasPrefix(f, q) == \E k \in 0..Len(f) : SubSeq(f, 1, k) = q
HasSuffix(f, x) == \E k \in 1..(Len(f) + 1) : SubSeq(f, k, Len(f)) = x
HasInvalidPrefix(f) == \E j \in DOMAIN invalid_start : HasPrefix(f, invalid_start[j])
HasInvalidExtension(f) ==
    \E j \in DOMAIN invalid_extensions : HasSuffix(f, invalid_extensions[j])
RepoMarker == repo_name \o <<"/">>

Count(x, seq) == Cardinality({i \in DOMAIN seq : seq[i] = x})

IsSubsequence(v, t) ==
    \E f \in [DOMAIN v -> DOMAIN t] :
        /\ \A i \in DOMAIN v : t[f[i]] = v[i]
        /\ \A i, j \in DOMAIN v : i < j => f[i] < f[j]

ArtifactsListed == op = "list_artifacts" /\ opc = "done" /\ proc.returncode = 0

\* C1: no string list_artifacts returns starts with a configured invalid
\* prefix, ends with a configured invalid extension, or equals "<repo_name>/".
C1_ArtifactsPassAllExclusions ==
    ArtifactsListed =>
        \A i \in DOMAIN ret.value :
            /\ ~ HasInvalidPrefix(ret.value[i])
            /\ ~ HasInvalidExtension(ret.value[i])
            /\ ret.value[i] # RepoMarker

\* a listing with a line excluded by prefix only, a line excluded by extension
\* only and a line that is returned
C1_Witness ==
    /\ ArtifactsListed
    /\ \E i \in DOMAIN ret.value : ret.value[i] # <<>>
    /\ \E i \in DOMAIN TrimmedLines(proc.stdout) :
           /\ HasInvalidPrefix(TrimmedLines(proc.stdout)[i])
           /\ ~ HasInvalidExtension(TrimmedLines(proc.stdout)[i])
    /\ \E i \in DOMAIN TrimmedLines(proc.stdout) :
           /\ HasInvalidExtension(TrimmedLines(proc.stdout)[i])
           /\ ~ HasInvalidPrefix(TrimmedLines(proc.stdout)[i])

\* C2 as stated: a trimmed line is dropped only if it starts with an invalid
\* prefix, ends with an invalid extension or is exactly "<repo_name>/"; any
\* other line (one that merely starts with "<repo_name>/" too) is retained, and
\* a listing with no such line is returned unchanged.
C2_DroppedOnlyForThreeReasons ==
    ArtifactsListed =>
        LET lines == TrimmedLines(proc.stdout)
            Allowed(f) == /\ ~ HasInvalidPrefix(f)
                          /\ ~ HasInvalidExtension(f)
                          /\ f # RepoMarker
        IN  /\ \A i \in DOMAIN lines :
                   Allowed(lines[i]) =>
                       Count(lines[i], ret.value) = Count(lines[i], lines)
            /\ (\A i \in DOMAIN lines : Allowed(lines[i])) => ret.value = lines

\* C2 amended: the third reason is that the line starts with "<repo_name>/"
\* (the marker itself included); a line that starts with the repository name
\* without the slash is retained.
C2_DroppedOnlyForPrefixExtensionOrRepoPath ==
    ArtifactsListed =>
        LET lines == TrimmedLines(proc.stdout)
            Allowed(f) == /\ ~ HasInvalidPrefix(f)
                          /\ ~ HasInvalidExtension(f)
                          /\ ~ HasPrefix(f, RepoMarker)
        IN  /\ \A i \in DOMAIN lines :
                   Allowed(lines[i]) =>
                       Count(lines[i], ret.value) = Count(lines[i], lines)
            /\ (\A i \in DOMAIN lines : Allowed(lines[i])) => ret.value = lines

\* a line "<repo_name>/x", with no invalid prefix or extension, that is dropped
\* beside a line that starts with the repository name and is returned
C2_Witness ==
    /\ ArtifactsListed
    /\ \E i \in DOMAIN TrimmedLines(proc.stdout) :
           LET f == TrimmedLines(proc.stdout)[i]
           IN  /\ HasPrefix(f, RepoMarker) /\ f # RepoMarker
               /\ ~ HasInvalidPrefix(f) /\ ~ HasInvalidExtension(f)
               /\ Count(f, ret.value) = 0
    /\ \E i \in DOMAIN ret.value : HasPrefix(ret.value[i], repo_name)

\* C3: the returned sequence is a subsequence of the trimmed input lines, every
\* retained line as often as in the input; an empty input gives an empty output.
C3_OrderPreserving ==
    ArtifactsListed =>
        LET lines == TrimmedLines(proc.stdout)
        IN  /\ IsSubsequence(ret.value, lines)
            /\ \A i \in DOMAIN ret.value :
                   Count(ret.value[i], ret.value) = Count(ret.value[i], lines)
            /\ proc.stdout = <<>> => ret.value = <<>>

\* two different lines are retained around a line that is dropped
C3_Witness ==
    /\ ArtifactsListed
    /\ Len(ret.value) = 2
    /\ ret.value[1] # ret.value[2]
    /\ Len(TrimmedLines(proc.stdout)) = 3
    /\ TrimmedLines(proc.stdout)[1] = ret.value[1]
    /\ TrimmedLines(proc.stdout)[3] = ret.value[2]

FlagsSet ==
    Cardinality({f \in {"is_login", "is_email", "is_realname"} : flags[f]})

\* C4 as stated: with zero or more than one mode flag set get_users fails with
\* the invalid-query error and runs no command; with exactly one flag set it
\* runs one search with that mode's match expression.
C4_ExactlyOneModeRequired ==
    (op = "get_users" /\ opc = "done") =>
        /\ FlagsSet # 1 =>
               /\ ret.kind = "raise"
               /\ ret.exc = "RuntimeError"
               /\ ret.msg = "Invalid user search."
               /\ spawned = <<>>
        /\ FlagsSet = 1 =>
               /\ Len(spawned) = 1
               /\ flags.is_login => spawned[1].match = "@login="
               /\ flags.is_email => spawned[1].match = "@email="
               /\ flags.is_realname => spawned[1].match = "contains(@realname,"

\* C6: when the external command exits non-zero, the operation raises, the
\* exception carries the captured stderr (CalledProcessError as its attribute,
\* RuntimeError trimmed in its message, raised from the CalledProcessError), no
\* record is returned or yielded, and the command was run once.
C6_CommandFailurePropagates ==
    (opc = "done" /\ spawned # <<>> /\ proc.returncode # 0) =>
        /\ ret.kind = "raise"
        /\ ret.value = <<>>
        /\ \/ ret.exc = "CalledProcessError" /\ ret.stderr = proc.stderr
           \/ /\ ret.exc = "RuntimeError"
              /\ ret.cause = "CalledProcessError"
              /\ ret.stderr = strip(proc.stderr)
        /\ Len(spawned) = 1

\* a group lookup whose command failed with a stderr text
C6_Witness ==
    /\ op = "get_groups" /\ opc = "done"
    /\ proc.returncode # 0
    /\ proc.stderr = <<SP, "a", NL>>
    /\ ret.stderr = <<"a">>

NotFound(o) == o.kind = "raise" /\ o.exc = "RuntimeError" /\ o.msg = "not found."

\* C7 as stated: a user search without person elements makes the provider
\* return an empty sequence and the caller raise not-found before any record;
\* a group lookup that returns a well-formed document with no element in it
\* makes the caller (not the provider) raise not-found.
C7_EmptyResultIsNotFound ==
    /\ (/\ op = "get_users" /\ opc = "done" /\ spawned # <<>>
        /\ proc.returncode = 0 /\ proc.stdout.wellformed
        /\ findall(proc.stdout.root.kids, "person") = <<>>) =>
           /\ pret.kind = "return" /\ pret.value = <<>>
           /\ NotFound(ret) /\ ret.value = <<>>
    /\ (/\ op = "get_groups" /\ opc = "done" /\ proc.returncode = 0
        /\ proc.stdout.wellformed /\ proc.stdout.root.kids = <<>>) =>
           /\ pret.kind = "return"
           /\ NotFound(ret)

\* C8 as stated: list_packages and list_artifacts return no empty string, and
\* list_packages returns the non-empty trimmed lines in source order.
C8_EmptyLinesDropped ==
    (op \in {"list_packages", "list_artifacts"} /\ opc = "done"
     /\ proc.returncode = 0) =>
        /\ \A i \in DOMAIN ret.value : ret.value[i] # <<>>
        /\ op = "list_packages" =>
               ret.value = SelectSeq(TrimmedLines(proc.stdout), LAMBDA f : f # <<>>)

(***************************************************************************)
(* artifacts.py.  A pattern is a sequence of atoms, a literal character or *)
(* "." (any character but a line break); re.search tries every start       *)
(* position from the left.                                                 *)
(***************************************************************************)
AtomMatches(atom, c) == IF atom = "." THEN c # NL ELSE atom = c

RECURSIVE MatchHere(_, _, _)
MatchHere(pattern, string, pos) ==
    IF pattern = <<>> THEN TRUE
    ELSE /\ pos <= Len(string)
         /\ AtomMatches(Head(pattern), string[pos])
         /\ MatchHere(Tail(pattern), string, pos + 1)

\* a faulty variant of re_search that matches at the start only (re.match)
re_search_AtStartOnly(pattern, string) == MatchHere(pattern, string, 1)

RECURSIVE SearchFrom(_, _, _)
SearchFrom(pattern, string, pos) ==
    IF pos > Len(string) + 1 THEN FALSE
    ELSE MatchHere(pattern, string, pos) \/ SearchFrom(pattern, string, pos + 1)

\* re.search(pattern, package) is not None
re_search(pattern, string) == SearchFrom(pattern, string, 1)

\* a faulty variant of progress_update with the update inside the if block
progress_update_OnlyOnMatch(count, matched) == IF matched THEN count + 1 ELSE count

\* progress.update(task_id, advance=1), after the if block of the package loop
progress_update(count, matched) == count + 1

RECURSIVE JoinLines(_)
JoinLines(names) ==
    IF names = <<>> THEN <<>>
    ELSE IF Len(names) = 1 THEN Head(names)
    ELSE Head(names) \o <<NL>> \o JoinLines(Tail(names))

PkgNames == {<<>>, <<"a">>, <<"r", "a">>}

\* what the package listing can do in SpecEnum
PackageProcs ==
    {[returncode |-> 0, stdout |-> JoinLines(n), stderr |-> <<>>] :
        n \in SeqsUpTo(PkgNames, MaxPkgs)}
    \cup {[returncode |-> 1, stdout |-> <<>>, stderr |-> <<"a">>]}

\* what an artifact listing can do in SpecEnum
ArtifactProcs ==
    {[returncode |-> 0, stdout |-> s, stderr |-> <<>>] :
        s \in {<<>>, <<"r", "a", NL, "r", "/", NL, "a">>}}
    \cup {[returncode |-> 1, stdout |-> <<>>, stderr |-> <<"a">>]}

RepoR == [name |-> <<"r">>, pattern |-> <<"a">>]
RepoA == [name |-> <<"a">>, pattern |-> <<".", "a">>]
RepoInfoConfigs == {<<>>, <<RepoR>>, <<RepoA>>, <<RepoR, RepoA>>, <<RepoA, RepoR>>}

OpIdle ==
    /\ op = "main"
    /\ opc = "done"
    /\ proc = [returncode |-> 0, stdout |-> <<>>, stderr |-> <<>>]
    /\ repo_name = NoText
    /\ flags = NoFlags
    /\ pret = NotYet
    /\ ret = NotYet
    /\ spawned = <<>>

InitEnum ==
    /\ OpIdle
    /\ invalid_start = << <<"/">> >>
    /\ invalid_extensions = << <<"r">> >>
    /\ pc = "start"
    /\ repo_infos \in RepoInfoConfigs
    /\ packages = <<>>
    /\ total_steps = 0
    /\ advanced = 0
    /\ di = 1
    /\ pi = 1
    /\ pending = <<>>
    /\ printed = <<>>
    /\ queries = <<>>
    /\ results = <<>>
    /\ failure = NotYet

EnumConfig == <<op, opc, proc, repo_name, invalid_start, invalid_extensions, flags,
                pret, ret, spawned, repo_infos>>

\* main: packages = data_sourcer.list_packages(...); total_steps = ...
MainListPackages ==
    /\ pc = "start"
    /\ \E p \in PackageProcs :
           LET r == DataSourcer_list_packages(p).out
           IN  /\ r.kind = "return"
               /\ packages' = r.value
               /\ total_steps' = Len(repo_infos) * Len(r.value)
               /\ pc' = "loop"
    /\ UNCHANGED <<advanced, di, pi, pending, printed, queries, results, failure>>
    /\ UNCHANGED EnumConfig

\* main: list_packages raises; nothing in main catches it
MainListPackagesFails ==
    /\ pc = "start"
    /\ \E p \in PackageProcs :
           LET r == DataSourcer_list_packages(p).out
           IN  /\ r.kind = "raise"
               /\ failure' = r
               /\ pc' = "failed"
    /\ UNCHANGED <<packages, total_steps, advanced, di, pi, pending, printed,
                   queries, results>>
    /\ UNCHANGED EnumConfig

InPackageLoop == pc = "loop" /\ di <= Len(repo_infos) /\ pi <= Len(packages)

Matched == re_search(repo_infos[di].pattern, packages[pi])

\* list_artifacs: the package does not match; progress.update
SkipPackage ==
    /\ InPackageLoop
    /\ ~ Matched
    /\ advanced' = progress_update(advanced, FALSE)
    /\ pi' = pi + 1
    /\ UNCHANGED <<pc, packages, total_steps, di, pending, printed, queries,
                   results, failure>>
    /\ UNCHANGED EnumConfig

\* list_artifacs: the package matches; data_sourcer.list_artifacts returns
QueryArtifacts ==
    /\ InPackageLoop
    /\ Matched
    /\ \E p \in ArtifactProcs :
           LET r == DataSourcer_list_artifacts(p, packages[pi], repo_infos[di].name,
                                               invalid_start, invalid_extensions).out
           IN  /\ r.kind = "return"
               /\ pending' = r.value
               /\ results' = Append(results, r.value)
    /\ queries' = Append(queries, <<di, pi>>)
    /\ pc' = "print"
    /\ UNCHANGED <<packages, total_steps, advanced, di, pi, printed, failure>>
    /\ UNCHANGED EnumConfig

\* list_artifacs: data_sourcer.list_artifacts raises; neither list_artifacs nor
\* main catches it
QueryArtifactsFails ==
    /\ InPackageLoop
    /\ Matched
    /\ \E p \in ArtifactProcs :
           LET r == DataSourcer_list_artifacts(p, packages[pi], repo_infos[di].name,
                                               invalid_start, invalid_extensions).out
           IN  /\ r.kind = "raise"
               /\ failure' = r
    /\ queries' = Append(queries, <<di, pi>>)
    /\ pc' = "failed"
    /\ UNCHANGED <<packages, total_steps, advanced, di, pi, pending, printed,
                   results>>
    /\ UNCHANGED EnumConfig

\* list_artifacs: print(line)
PrintLine ==
    /\ pc = "print"
    /\ pending # <<>>
    /\ printed' = Append(printed, Head(pending))
    /\ pending' = Tail(pending)
    /\ UNCHANGED <<pc, packages, total_steps, advanced, di, pi, queries, results,
                   failure>>
    /\ UNCHANGED EnumConfig

\* list_artifacs: the lines are printed; progress.update
AdvanceAfterQuery ==
    /\ pc = "print"
    /\ pending = <<>>
    /\ advanced' = progress_update(advanced, TRUE)
    /\ pi' = pi + 1
    /\ pc' = "loop"
    /\ UNCHANGED <<packages, total_steps, di, pending, printed, queries, results,
                   failure>>
    /\ UNCHANGED EnumConfig

\* main: list_artifacs returns; the next repo_info
NextRepoInfo ==
    /\ pc = "loop"
    /\ di <= Len(repo_infos)
    /\ pi > Len(packages)
    /\ di' = di + 1
    /\ pi' = 1
    /\ UNCHANGED <<pc, packages, total_steps, advanced, pending, printed, queries,
                   results, failure>>
    /\ UNCHANGED EnumConfig

\* main: the loop over repo_info ends
MainReturns ==
    /\ pc = "loop"
    /\ di > Len(repo_infos)
    /\ pc' = "done"
    /\ UNCHANGED <<packages, total_steps, advanced, di, pi, pending, printed,
                   queries, results, failure>>
    /\ UNCHANGED EnumConfig

NextEnum ==
    \/ MainListPackages
    \/ MainListPackagesFails
    \/ SkipPackage
    \/ QueryArtifacts
    \/ QueryArtifactsFails
    \/ PrintLine
    \/ AdvanceAfterQuery
    \/ NextRepoInfo
    \/ MainReturns

SpecEnum == InitEnum /\ [][NextEnum]_vars

(***************************************************************************)
(* Properties of the enumeration (checked under SpecEnum).                 *)
(***************************************************************************)
\* the pattern matches some substring of the name
MatchesInside(pattern, name) ==
    \E i \in 1..(Len(name) + 1) :
        /\ i + Len(pattern) - 1 <= Len(name)
        /\ \A k \in DOMAIN pattern :
               \/ pattern[k] = name[i + k - 1]
               \/ pattern[k] = "." /\ name[i + k - 1] # NL

\* the place of the pair <<d, p>> in the order descriptors-outer, packages-inner
PairIndex(d, p) == (d - 1) * Len(packages) + p

AllPairs ==
    [k \in 1..(Len(repo_infos) * Len(packages)) |->
        <<((k - 1) \div Len(packages)) + 1, ((k - 1) % Len(packages)) + 1>>]

\* the pairs the loops have reached: those before the current one, and the
\* current one once its query is issued
Reached(pair) ==
    \/ PairIndex(pair[1], pair[2]) < PairIndex(di, pi)
    \/ pc \in {"print", "failed"} /\ pair = <<di, pi>>

RECURSIVE Flatten(_)
Flatten(lists) ==
    IF lists = <<>> THEN <<>> ELSE Head(lists) \o Flatten(Tail(lists))

QueryFailed == pc = "failed" /\ queries # <<>>

\* C5 as stated: a failed artifact query does not end the enumeration, and
\* progress is advanced for its pair too.
C5_QueryFailureDoesNotStopEnumeration ==
    QueryFailed =>
        /\ ENABLED NextEnum
        /\ advanced >= PairIndex(di, pi)

\* C9: the queries issued are those of the reached pairs whose pattern matches
\* inside the package name, one each, descriptors outer and packages inner;
\* what is printed and what is still to print of the current query are the
\* returned lines in order, all lines of a query are printed before the next
\* query, and only lines of the latest query wait to be printed.
C9_QueriesAndStreaming ==
    /\ queries = SelectSeq(AllPairs,
                           LAMBDA pair :
                               /\ Reached(pair)
                               /\ MatchesInside(repo_infos[pair[1]].pattern,
                                                packages[pair[2]]))
    /\ Len(results) = Len(queries) - (IF QueryFailed THEN 1 ELSE 0)
    /\ printed \o pending = Flatten(results)
    /\ pc # "print" => pending = <<>>
    /\ pending # <<>> => HasSuffix(results[Len(results)], pending)

\* a finished enumeration that queried a package matched past its first
\* character, skipped another pair and printed lines of two queries
C9_Witness ==
    /\ pc = "done"
    /\ Len(queries) >= 2
    /\ Len(queries) < total_steps
    /\ \E k \in DOMAIN queries :
           /\ MatchesInside(repo_infos[queries[k][1]].pattern,
                            packages[queries[k][2]])
           /\ ~ MatchHere(repo_infos[queries[k][1]].pattern,
                          packages[queries[k][2]], 1)
    /\ \A k \in DOMAIN results : results[k] # <<>>

\* C10: progress is advanced once per pair visited, matching or not, with or
\* without lines; it never exceeds total_steps = descriptors x packages and
\* equals it when the enumeration ends without a failure.
C10_ProgressAccounting ==
    /\ pc \in {"loop", "print"} => advanced = PairIndex(di, pi) - 1
    /\ pc # "start" /\ failure.kind = "none" =>
           total_steps = Len(repo_infos) * Len(packages)
    /\ advanced <= total_steps
    /\ pc = "done" => advanced = total_steps

\* a finished enumeration with a pair that did not match and a query that
\* returned no line
C10_Witness ==
    /\ pc = "done"
    /\ queries # <<>>
    /\ Len(queries) < total_steps
    /\ \E k \in DOMAIN results : results[k] = <<>>

====
